---- MODULE Spec2Model ----
(***************************************************************************)
(* Resilience layer of pyidverify's external integrations:                 *)
(* CircuitBreaker and ExternalAPIClient.call_api of                        *)
(* src/integrations/external.py, with the LRUCache of src/utils/caching.py *)
(* the client uses.                                                        *)
(*                                                                         *)
(* Time is time.time() read in whole ticks; one tick stands for 30 s, so   *)
(* the 60 s recovery timeout and the 60 s rate window are 2 ticks each.    *)
(***************************************************************************)
EXTENDS Integers, Sequences, FiniteSets, TLC

(***************************************************************************)
(* Bounds of the model and the configuration it is instantiated with.      *)
(***************************************************************************)
\* last tick the clock reaches
MaxTime == 5
\* record_failure is not taken once failure_count has reached this cap
MaxFailureCount == 4
\* CircuitBreakerConfig.failure_threshold the breaker is built with
failure_threshold == 2
\* CircuitBreakerConfig.recovery_timeout, in ticks
recovery_timeout == 2
\* CircuitBreakerConfig.success_threshold
success_threshold == 2

\* rate_limit_per_minute the client's limiter is built with
max_requests == 2
\* RateLimiter time_window (60 s), in ticks
time_window == 2
\* LRUCache maxsize the client's cache is built with
maxsize == 2
\* direct allow_request calls in one window after which no further one is made
MaxAsked == 6
\* transport invocations after which no further one is made
MaxTransportCalls == 4
MaxCacheCalls == 3
\* backoff.on_exception(..., max_tries=3)
max_tries == 3
\* the module's imports succeeded: limiter, cache and audit log are in use
IMPORTS_AVAILABLE == TRUE

Callers == {"c1", "c2"}
\* threads that share one breaker or one cache
Threads == {"t1", "t2"}
NoThread == "none"
\* _generate_cache_key values of the requests made
Keys == {"k1", "k2"}
\* keys the caches are called with on their own
CacheKeyDomain == Keys \cup {"k3"}

CLOSED == "closed"
OPEN == "open"
HALF_OPEN == "half_open"
ServiceState == {CLOSED, OPEN, HALF_OPEN}

\* the APIConfiguration values a client is built with: the defaults
\* (max_retries 3, retry_backoff_factor 2.0) and two other legal settings,
\* max_retries 5 being the enterprise profile's
APIConfiguration ==
    {[max_retries |-> 3, retry_backoff_factor |-> 2],
     [max_retries |-> 2, retry_backoff_factor |-> 2],
     [max_retries |-> 5, retry_backoff_factor |-> 3]}

VARIABLES
    config,           \* the client's APIConfiguration (never assigned after __init__)
    now,              \* time.time()
    circuit_breaker,  \* the CircuitBreaker instance's fields
    last_call,        \* latest direct call of the breaker's interface: its
                      \* name, return value and the breaker it found
    hist,             \* history of the record_* calls (observation only)
    rate_limiter,     \* the client's RateLimiter
    limiter_hist,     \* history of the allow_request calls (observation only)
    response_cache,   \* the client's LRUCache: the OrderedDict, oldest first
    transport_calls,  \* session.request invocations made so far
    calls,            \* per caller: where its call_api coroutine stands
    waits,            \* the delays the retry decorator slept in one call
    ttl_cache,        \* a TTLCache: the items of its dict in insertion order
    ttl_recency,      \* its keys by latest access (observation only)
    cache_call,       \* latest call of a cache's interface and its return
    threads,          \* per thread: where its record_failure call stands
    race,             \* record_failure calls finished and Closed->Open
                      \* transitions taken by threads (observation only)
    cache_threads,    \* per thread: where its TTLCache call stands
    lock,             \* the TTLCache's RLock: its owner
    cache_calls       \* calls threads have made on the TTLCache so far

vars == <<config, now, circuit_breaker, last_call, hist, rate_limiter, limiter_hist,
          response_cache, transport_calls, calls, waits, ttl_cache, ttl_recency,
          cache_call, threads, race, cache_threads, lock, cache_calls>>
threadVars == <<threads, race>>
lockVars == <<cache_threads, lock, cache_calls>>
aloneVars == <<waits, ttl_cache, ttl_recency, cache_call, threadVars, lockVars>>
breakerVars == <<circuit_breaker, last_call, hist>>
clientVars == <<rate_limiter, limiter_hist, response_cache, transport_calls, calls>>

(***************************************************************************)
(* CircuitBreaker                                                          *)
(***************************************************************************)
CircuitBreakerInit(t) ==
    [state |-> CLOSED,
     failure_count |-> 0,
     success_count |-> 0,
     last_failure_time |-> 0,
     last_state_change |-> t]

\* transition_to_closed that keeps the failures counted so far
transition_to_closed_keep_failures(cb, t) ==
    [cb EXCEPT !.state = CLOSED,
               !.success_count = 0,
               !.last_state_change = t]

\* transition_to_closed that keeps the successes counted so far
transition_to_closed_keep_successes(cb, t) ==
    [cb EXCEPT !.state = CLOSED,
               !.failure_count = 0,
               !.last_state_change = t]

transition_to_closed(cb, t) ==
    [cb EXCEPT !.state = CLOSED,
               !.failure_count = 0,
               !.success_count = 0,
               !.last_state_change = t]

\* transition_to_open that keeps the successes counted so far
transition_to_open_keep_successes(cb, t) ==
    [cb EXCEPT !.state = OPEN,
               !.last_state_change = t]

transition_to_open(cb, t) ==
    [cb EXCEPT !.state = OPEN,
               !.success_count = 0,
               !.last_state_change = t]

transition_to_half_open(cb, t) ==
    [cb EXCEPT !.state = HALF_OPEN,
               !.success_count = 0,
               !.last_state_change = t]

\* can_execute that admits no call while the breaker is half-open
can_execute_half_open_closed(cb, t) ==
    IF cb.state = CLOSED THEN [ok |-> TRUE, cb |-> cb]
    ELSE IF cb.state = OPEN
    THEN IF t - cb.last_failure_time >= recovery_timeout
         THEN [ok |-> TRUE, cb |-> transition_to_half_open(cb, t)]
         ELSE [ok |-> FALSE, cb |-> cb]
    ELSE [ok |-> FALSE, cb |-> cb]

\* can_execute that asks for more than recovery_timeout to have passed
can_execute_gt(cb, t) ==
    IF cb.state = CLOSED THEN [ok |-> TRUE, cb |-> cb]
    ELSE IF cb.state = OPEN THEN
        IF t - cb.last_failure_time > recovery_timeout
        THEN [ok |-> TRUE, cb |-> transition_to_half_open(cb, t)]
        ELSE [ok |-> FALSE, cb |-> cb]
    ELSE IF cb.state = HALF_OPEN THEN [ok |-> TRUE, cb |-> cb]
    ELSE [ok |-> FALSE, cb |-> cb]

\* can_execute that lets an Open breaker try again without waiting
can_execute_no_timeout(cb, t) ==
    IF cb.state = CLOSED THEN [ok |-> TRUE, cb |-> cb]
    ELSE IF cb.state = OPEN
    THEN [ok |-> TRUE, cb |-> transition_to_half_open(cb, t)]
    ELSE IF cb.state = HALF_OPEN THEN [ok |-> TRUE, cb |-> cb]
    ELSE [ok |-> FALSE, cb |-> cb]

\* can_execute: the returned boolean and the breaker it leaves behind
can_execute(cb, t) ==
    IF cb.state = CLOSED THEN [ok |-> TRUE, cb |-> cb]
    ELSE IF cb.state = OPEN THEN
        IF t - cb.last_failure_time >= recovery_timeout
        THEN [ok |-> TRUE, cb |-> transition_to_half_open(cb, t)]
        ELSE [ok |-> FALSE, cb |-> cb]
    ELSE IF cb.state = HALF_OPEN THEN [ok |-> TRUE, cb |-> cb]
    ELSE [ok |-> FALSE, cb |-> cb]

\* record_success that closes one success late
record_success_gt(cb, t) ==
    IF cb.state = HALF_OPEN THEN
        LET c1 == [cb EXCEPT !.success_count = cb.success_count + 1]
        IN  IF c1.success_count > success_threshold
            THEN transition_to_closed(c1, t)
            ELSE c1
    ELSE IF cb.state = CLOSED THEN [cb EXCEPT !.failure_count = 0]
    ELSE cb

\* record_success that leaves failure_count alone while Closed
record_success_no_reset(cb, t) ==
    IF cb.state = HALF_OPEN THEN
        LET c1 == [cb EXCEPT !.success_count = cb.success_count + 1]
        IN  IF c1.success_count >= success_threshold
            THEN transition_to_closed(c1, t)
            ELSE c1
    ELSE cb

\* record_success that counts successes in every state but Closed
record_success_any_state(cb, t) ==
    IF cb.state # CLOSED THEN
        LET c1 == [cb EXCEPT !.success_count = cb.success_count + 1]
        IN  IF c1.success_count >= success_threshold
            THEN transition_to_closed(c1, t)
            ELSE c1
    ELSE [cb EXCEPT !.failure_count = 0]

record_success(cb, t) ==
    IF cb.state = HALF_OPEN THEN
        LET c1 == [cb EXCEPT !.success_count = cb.success_count + 1]
        IN  IF c1.success_count >= success_threshold
            THEN transition_to_closed(c1, t)
            ELSE c1
    ELSE IF cb.state = CLOSED THEN [cb EXCEPT !.failure_count = 0]
    ELSE cb

\* record_failure that leaves an open breaker as it is
record_failure_open_ignored(cb, t) ==
    LET c1 == [cb EXCEPT !.failure_count = cb.failure_count + 1,
                         !.last_failure_time = t]
    IN  IF cb.state = CLOSED THEN
            IF c1.failure_count >= failure_threshold
            THEN transition_to_open(c1, t)
            ELSE c1
        ELSE IF cb.state = HALF_OPEN THEN transition_to_open(c1, t)
        ELSE cb

\* record_failure that opens one failure late
record_failure_gt(cb, t) ==
    LET c1 == [cb EXCEPT !.failure_count = cb.failure_count + 1,
                         !.last_failure_time = t]
    IN  IF c1.state = CLOSED THEN
            IF c1.failure_count > failure_threshold
            THEN transition_to_open(c1, t)
            ELSE c1
        ELSE IF c1.state = HALF_OPEN THEN transition_to_open(c1, t)
        ELSE c1

record_failure(cb, t) ==
    LET c1 == [cb EXCEPT !.failure_count = cb.failure_count + 1,
                         !.last_failure_time = t]
    IN  IF c1.state = CLOSED THEN
            IF c1.failure_count >= failure_threshold
            THEN transition_to_open(c1, t)
            ELSE c1
        ELSE IF c1.state = HALF_OPEN THEN transition_to_open(c1, t)
        ELSE c1

time_until_half_open(cb, t) ==
    LET d == (cb.last_failure_time + recovery_timeout) - t
    IN  IF d > 0 THEN d ELSE 0

get_state(cb, t) ==
    [state |-> cb.state,
     failure_count |-> cb.failure_count,
     success_count |-> cb.success_count,
     last_failure_time |-> cb.last_failure_time,
     last_state_change |-> cb.last_state_change,
     time_until_half_open |-> time_until_half_open(cb, t)]

\* what last_call holds for a call that returns no dict
NoSnapshot == get_state(CircuitBreakerInit(0), 0)

(***************************************************************************)
(* History of the calls made on the breaker.  k counts the record_failure  *)
(* calls made since the breaker was last Closed with failure_count = 0,    *)
(* and is -1 once another call has come in between; run is the length of   *)
(* the current run of record_failure calls with no record_success between, *)
(* long_run whether a run ever reached failure_threshold;                  *)
(* last_real_failure is the time of the latest record_failure that did not *)
(* come from a call the breaker gate itself refused.                       *)
(***************************************************************************)
HistInit == [k |-> 0, run |-> 0, long_run |-> FALSE, last_real_failure |-> 0]

Fresh(cb) == cb.state = CLOSED /\ cb.failure_count = 0

HistFailure(h, cb2, refused) ==
    [k |-> IF h.k >= 0 THEN h.k + 1 ELSE -1,
     run |-> h.run + 1,
     long_run |-> h.long_run \/ h.run + 1 >= failure_threshold,
     last_real_failure |-> IF refused THEN h.last_real_failure
                           ELSE cb2.last_failure_time]

HistSuccess(h, cb2) ==
    [h EXCEPT !.k = IF Fresh(cb2) THEN 0 ELSE -1,
              !.run = 0]

HistCanExecute(h, cb1, cb2) ==
    IF cb2.state = cb1.state THEN h ELSE [h EXCEPT !.k = -1]

(***************************************************************************)
(* RateLimiter (security.rate_limiting): a fixed window with lazy rollover.*)
(***************************************************************************)
RateLimiterInit(t) == [window_start |-> t, count |-> 0]

\* allow_request that counts the call before it decides
allow_request_counts_refused(rl, t) ==
    LET r1 == IF t - rl.window_start >= time_window
              THEN [window_start |-> t, count |-> 0]
              ELSE rl
    IN  [ok |-> r1.count < max_requests,
         rl |-> [r1 EXCEPT !.count = r1.count + 1]]

\* allow_request that starts a new window without emptying the counter
allow_request_keeps_count(rl, t) ==
    LET r1 == IF t - rl.window_start >= time_window
              THEN [rl EXCEPT !.window_start = t]
              ELSE rl
    IN  IF r1.count < max_requests
        THEN [ok |-> TRUE, rl |-> [r1 EXCEPT !.count = r1.count + 1]]
        ELSE [ok |-> FALSE, rl |-> r1]

allow_request(rl, t) ==
    LET r1 == IF t - rl.window_start >= time_window
              THEN [window_start |-> t, count |-> 0]
              ELSE rl
    IN  IF r1.count < max_requests
        THEN [ok |-> TRUE, rl |-> [r1 EXCEPT !.count = r1.count + 1]]
        ELSE [ok |-> FALSE, rl |-> r1]

(***************************************************************************)
(* History of the calls made on the limiter: asked and granted count the   *)
(* allow_request calls made and answered True since the window the limiter *)
(* is in began; value is the answer of the latest call, before the limiter *)
(* it found and at the time it was made.                                   *)
(***************************************************************************)
LimiterHistInit(t) ==
    [asked |-> 0, granted |-> 0, value |-> FALSE,
     before |-> RateLimiterInit(t), at |-> t]

WindowOver(rl, t) == t - rl.window_start >= time_window

LimiterHistAllow(h, rl, a, t) ==
    LET fresh == WindowOver(rl, t)
    IN  [asked |-> IF fresh THEN 1 ELSE h.asked + 1,
         granted |-> (IF fresh THEN 0 ELSE h.granted) + (IF a.ok THEN 1 ELSE 0),
         value |-> a.ok,
         before |-> rl,
         at |-> t]

(***************************************************************************)
(* LRUCache: an OrderedDict, here the sequence of its items, oldest first. *)
(***************************************************************************)
\* get's default when the key is not found
NoValue == [cached |-> FALSE]

CacheKeys(cache) == {cache[i].key : i \in 1..Len(cache)}

CacheIndex(cache, key) == CHOOSE i \in 1..Len(cache) : cache[i].key = key

CacheRemove(cache, key) ==
    SelectSeq(cache, LAMBDA e : e.key # key)

\* get: a hit moves the item to the end
lru_get(cache, key) ==
    IF key \in CacheKeys(cache)
    THEN LET e == cache[CacheIndex(cache, key)]
         IN  [found |-> TRUE, value |-> e.value,
              cache |-> Append(CacheRemove(cache, key), e)]
    ELSE [found |-> FALSE, value |-> NoValue, cache |-> cache]

\* set that evicts the most recently used item
lru_set_evicts_newest(cache, key, value) ==
    LET c1 == IF key \in CacheKeys(cache) THEN CacheRemove(cache, key)
              ELSE IF Len(cache) >= maxsize THEN SubSeq(cache, 1, Len(cache) - 1)
              ELSE cache
    IN  Append(c1, [key |-> key, value |-> value])

\* set(key, value)
lru_set(cache, key, value) ==
    LET c1 == IF key \in CacheKeys(cache) THEN CacheRemove(cache, key)
              ELSE IF Len(cache) >= maxsize THEN Tail(cache)
              ELSE cache
    IN  Append(c1, [key |-> key, value |-> value])

\* delete(key)
lru_delete(cache, key) == CacheRemove(cache, key)

(***************************************************************************)
(* TTLCache: a dict of key -> (value, expiry_time), here the sequence of   *)
(* its items in insertion order.                                           *)
(***************************************************************************)
default_ttl == 2
\* set called without a ttl
None == -1
\* ttl arguments set is called with
TtlArgs == {None, 1}

\* _clean_expired
ttl_clean_expired(cache, t) == SelectSeq(cache, LAMBDA e : ~(t >= e.expiry))

\* min(self._cache.keys(), key=expiry): the first of the items with the
\* earliest expiry time
ttl_oldest_key(cache) ==
    LET i == CHOOSE i \in 1..Len(cache) :
                 /\ \A j \in 1..Len(cache) : cache[i].expiry <= cache[j].expiry
                 /\ \A j \in 1..(i - 1) : cache[j].expiry > cache[i].expiry
    IN  cache[i].key

\* self._cache[key] = (value, expiry_time): a key the dict holds keeps its
\* place, a new one goes to the end
ttl_store(cache, key, value, expiry) ==
    IF key \in CacheKeys(cache)
    THEN [i \in 1..Len(cache) |->
             IF cache[i].key = key
             THEN [key |-> key, value |-> value, expiry |-> expiry]
             ELSE cache[i]]
    ELSE Append(cache, [key |-> key, value |-> value, expiry |-> expiry])

\* set that makes room although the key is already stored
ttl_set_evicts_on_overwrite(cache, key, value, ttl, t) ==
    LET expiry_time == t + (IF ttl = None THEN default_ttl ELSE ttl)
        c1 == IF Len(cache) >= maxsize THEN ttl_clean_expired(cache, t) ELSE cache
        c2 == IF Len(c1) >= maxsize
              THEN CacheRemove(c1, ttl_oldest_key(c1))
              ELSE c1
    IN  ttl_store(c2, key, value, expiry_time)

\* set under the lock, before the item is stored: expired entries go if
\* the dict is full, then the oldest entry if it is still full and the key
\* is new
ttl_make_room(cache, key, t) ==
    LET c1 == IF Len(cache) >= maxsize THEN ttl_clean_expired(cache, t) ELSE cache
    IN  IF Len(c1) >= maxsize /\ key \notin CacheKeys(c1)
        THEN CacheRemove(c1, ttl_oldest_key(c1))
        ELSE c1

\* set(key, value, ttl=None)
ttl_set(cache, key, value, ttl, t) ==
    LET expiry_time == t + (IF ttl = None THEN default_ttl ELSE ttl)
    IN  ttl_store(ttl_make_room(cache, key, t), key, value, expiry_time)

\* a lock that keeps nobody out
lock_acquirable_always(owner, t) == TRUE

\* with self._lock: the RLock is free or held by the thread itself
lock_acquirable(owner, t) == owner = NoThread \/ owner = t

\* get that answers from an entry whatever its expiry time
ttl_get_never_expires(cache, key, t) ==
    IF key \in CacheKeys(cache)
    THEN [found |-> TRUE, value |-> cache[CacheIndex(cache, key)].value, cache |-> cache]
    ELSE [found |-> FALSE, value |-> NoValue, cache |-> cache]

\* get(key): an expired entry is deleted and not returned
ttl_get(cache, key, t) ==
    IF key \in CacheKeys(cache)
    THEN LET e == cache[CacheIndex(cache, key)]
         IN  IF t < e.expiry
             THEN [found |-> TRUE, value |-> e.value, cache |-> cache]
             ELSE [found |-> FALSE, value |-> NoValue,
                   cache |-> CacheRemove(cache, key)]
    ELSE [found |-> FALSE, value |-> NoValue, cache |-> cache]

\* no cache operation has been called yet
NoCacheCall ==
    [op |-> "init", key |-> "", found |-> FALSE, value |-> NoValue, removed |-> {}]

\* the parameters LRUCache.set takes
LRUCacheSetParams == {"key", "value"}
\* the arguments call_api passes: set(cache_key, service_response, ttl=...)
CallApiSetArgs == {"key", "value", "ttl"}
\* a set that takes every argument call_api passes
SetTakesTheArguments == FALSE

\* a keyword argument the method does not take raises TypeError
SetRaisesTypeError == ~(CallApiSetArgs \subseteq LRUCacheSetParams)

(***************************************************************************)
(* ExternalAPIClient.call_api                                              *)
(***************************************************************************)
CircuitOpenMessage == "Circuit breaker is open - service unavailable"
RateLimitMessage == "Rate limit exceeded"

NoResponse == [success |-> FALSE, error_message |-> "", error_type |-> "",
               cached |-> FALSE]

FailureResponse(msg, type) ==
    [success |-> FALSE, error_message |-> msg, error_type |-> type,
     cached |-> FALSE]

SuccessResponse(cached) ==
    [success |-> TRUE, error_message |-> "", error_type |-> "",
     cached |-> cached]

\* checks, allows, lookups, rec_s, rec_f and audit count what the call has
\* done so far: can_execute, allow_request, cache get, record_success,
\* record_failure, audit_logger.log_api_call; stored tells that the response
\* object the caller holds is the very object the cache holds under key
IdleCall == [pc |-> "idle", key |-> "", tries |-> 0, response |-> NoResponse,
             checks |-> 0, allows |-> 0, lookups |-> 0,
             rec_s |-> 0, rec_f |-> 0, gate |-> "",
             stored |-> FALSE, audit |-> 0]

\* config.enable_audit_logging, left at its default
enable_audit_logging == TRUE

\* the log_api_call the success path and the except branch each make
log_api_call == IF enable_audit_logging /\ IMPORTS_AVAILABLE THEN 1 ELSE 0

\* cached_response.cached = True: the object stored under key is written,
\* and with it the response of every caller that holds that object
hit_marks(cs, key) ==
    [c \in DOMAIN cs |->
        IF cs[c].stored /\ cs[c].key = key
        THEN [cs[c] EXCEPT !.response.cached = TRUE]
        ELSE cs[c]]

\* after a set under key written ("" for none) that left the cache as
\* cache: the objects replaced or evicted are no longer those callers hold
set_unlinks(cs, cache, written) ==
    [c \in DOMAIN cs |->
        IF cs[c].stored /\ (cs[c].key = written \/ cs[c].key \notin CacheKeys(cache))
        THEN [cs[c] EXCEPT !.stored = FALSE]
        ELSE cs[c]]

\* the except branch: record the failure, build the failure response
call_api_except(cb, t, msg, type) ==
    [cb |-> record_failure(cb, t), response |-> FailureResponse(msg, type)]

\* the try block from the cache lookup to the await of _execute_with_retry,
\* entered once both gates have let the call through
call_api_lookup(cb, rl, cache, key, checks, allows) ==
    LET l == lru_get(cache, key)
    IN  IF IMPORTS_AVAILABLE /\ l.found
        THEN [pc |-> "returned", cb |-> cb, rl |-> rl,
              cache |-> [l.cache EXCEPT ![Len(l.cache)].value.cached = TRUE],
              response |-> [l.value EXCEPT !.cached = TRUE],
              raised |-> FALSE,
              checks |-> checks, allows |-> allows, lookups |-> 1]
        ELSE [pc |-> "transport", cb |-> cb, rl |-> rl,
              cache |-> IF IMPORTS_AVAILABLE THEN l.cache ELSE cache,
              response |-> NoResponse, raised |-> FALSE,
              checks |-> checks, allows |-> allows,
              lookups |-> IF IMPORTS_AVAILABLE THEN 1 ELSE 0]

\* call_api_gates that counts an answer from the cache as a success
call_api_gates_hit_recorded(cb, rl, cache, key, t) ==
    LET g == can_execute(cb, t)
        a == allow_request(rl, t)
        r == call_api_lookup(g.cb, IF IMPORTS_AVAILABLE THEN a.rl ELSE rl,
                             cache, key, 1, IF IMPORTS_AVAILABLE THEN 1 ELSE 0)
    IN  IF ~g.ok
        THEN LET x == call_api_except(g.cb, t, CircuitOpenMessage, "IntegrationError")
             IN  [pc |-> "returned", cb |-> x.cb, rl |-> rl, cache |-> cache,
                  response |-> x.response, raised |-> TRUE,
                  checks |-> 1, allows |-> 0, lookups |-> 0]
        ELSE IF IMPORTS_AVAILABLE /\ ~a.ok
        THEN LET x == call_api_except(g.cb, t, RateLimitMessage, "IntegrationError")
             IN  [pc |-> "returned", cb |-> x.cb, rl |-> a.rl, cache |-> cache,
                  response |-> x.response, raised |-> TRUE,
                  checks |-> 1, allows |-> 1, lookups |-> 0]
        ELSE IF r.pc = "returned"
        THEN [r EXCEPT !.cb = record_success(r.cb, t)]
        ELSE r

\* call_api_gates that goes on although the rate limiter said no
call_api_gates_limit_ignored(cb, rl, cache, key, t) ==
    LET g == can_execute(cb, t)
        a == allow_request(rl, t)
    IN  IF ~g.ok
        THEN LET x == call_api_except(g.cb, t, CircuitOpenMessage, "IntegrationError")
             IN  [pc |-> "returned", cb |-> x.cb, rl |-> rl, cache |-> cache,
                  response |-> x.response, raised |-> TRUE,
                  checks |-> 1, allows |-> 0, lookups |-> 0]
        ELSE call_api_lookup(g.cb, IF IMPORTS_AVAILABLE THEN a.rl ELSE rl,
                             cache, key, 1, IF IMPORTS_AVAILABLE THEN 1 ELSE 0)

\* call_api_gates that asks the rate limiter before the breaker
call_api_gates_limiter_first(cb, rl, cache, key, t) ==
    LET a == allow_request(rl, t)
        g == can_execute(cb, t)
    IN  IF IMPORTS_AVAILABLE /\ ~a.ok
        THEN LET x == call_api_except(cb, t, RateLimitMessage, "IntegrationError")
             IN  [pc |-> "returned", cb |-> x.cb, rl |-> a.rl, cache |-> cache,
                  response |-> x.response, raised |-> TRUE,
                  checks |-> 0, allows |-> 1, lookups |-> 0]
        ELSE IF ~g.ok
        THEN LET x == call_api_except(g.cb, t, CircuitOpenMessage, "IntegrationError")
             IN  [pc |-> "returned", cb |-> x.cb, rl |-> a.rl, cache |-> cache,
                  response |-> x.response, raised |-> TRUE,
                  checks |-> 1, allows |-> 1, lookups |-> 0]
        ELSE call_api_lookup(g.cb, a.rl, cache, key, 1, 1)

\* the try block up to the await of _execute_with_retry
call_api_gates(cb, rl, cache, key, t) ==
    LET g == can_execute(cb, t)
        a == allow_request(rl, t)
    IN  IF ~g.ok
        THEN LET x == call_api_except(g.cb, t, CircuitOpenMessage, "IntegrationError")
             IN  [pc |-> "returned", cb |-> x.cb, rl |-> rl, cache |-> cache,
                  response |-> x.response, raised |-> TRUE,
                  checks |-> 1, allows |-> 0, lookups |-> 0]
        ELSE IF IMPORTS_AVAILABLE /\ ~a.ok
        THEN LET x == call_api_except(g.cb, t, RateLimitMessage, "IntegrationError")
             IN  [pc |-> "returned", cb |-> x.cb, rl |-> a.rl, cache |-> cache,
                  response |-> x.response, raised |-> TRUE,
                  checks |-> 1, allows |-> 1, lookups |-> 0]
        ELSE call_api_lookup(g.cb, IF IMPORTS_AVAILABLE THEN a.rl ELSE rl,
                             cache, key, 1, IF IMPORTS_AVAILABLE THEN 1 ELSE 0)

\* what one session.request attempt can come to
TransportOutcomes == {"ok", "client_error", "timeout", "http_4xx", "http_5xx"}
\* the exceptions backoff.on_exception retries on
RetriedOutcomes == {"client_error", "timeout"}

ErrorType(outcome) ==
    IF outcome = "client_error" THEN "ClientError"
    ELSE IF outcome = "timeout" THEN "TimeoutError"
    ELSE "IntegrationError"

\* backoff.expo as the decorator calls it, with no base, factor or
\* max_value argument: the n-th value it yields (n from 0) is 1 * 2^n
expo(n) == 1 * 2^n

\* the decorator's jitter, left at its default: the delay is drawn between
\* 0 and the generator's value (whole seconds here)
full_jitter(value) == 0..value

\* _execute_with_retry that retries whatever the attempt raised
execute_with_retry_all_retried(outcome, tries) ==
    IF outcome = "ok" THEN "return"
    ELSE IF tries < max_tries THEN "retry"
    ELSE "raise"

\* _execute_with_retry after one attempt: return, sleep and retry, or raise
execute_with_retry(outcome, tries) ==
    IF outcome = "ok" THEN "return"
    ELSE IF outcome \in RetriedOutcomes /\ tries < max_tries THEN "retry"
    ELSE "raise"

\* call_api from the return of _execute_with_retry to its own return
call_api_success(cb, cache, key, t) ==
    LET cb1 == record_success(cb, t)
        service_response == SuccessResponse(FALSE)
    IN  IF IMPORTS_AVAILABLE /\ SetRaisesTypeError
        THEN LET x == call_api_except(cb1, t, "set() got an unexpected keyword argument 'ttl'", "TypeError")
             IN  [cb |-> x.cb, cache |-> cache, response |-> x.response,
                  recorded_success |-> TRUE, recorded_failure |-> TRUE]
        ELSE [cb |-> cb1,
              cache |-> IF IMPORTS_AVAILABLE
                        THEN lru_set(cache, key, service_response)
                        ELSE cache,
              response |-> service_response,
              recorded_success |-> TRUE, recorded_failure |-> FALSE]

\* call_api that reports every failed attempt to the breaker
call_api_attempt_each_counted(cb, cache, key, outcome, tries, t) ==
    LET step == execute_with_retry(outcome, tries)
    IN  IF step = "retry"
        THEN [pc |-> "backoff", cb |-> record_failure(cb, t), cache |-> cache,
              response |-> NoResponse, rec_s |-> 0, rec_f |-> 0]
        ELSE IF step = "return"
        THEN LET r == call_api_success(cb, cache, key, t)
             IN  [pc |-> "returned", cb |-> r.cb, cache |-> r.cache, response |-> r.response,
                  rec_s |-> IF r.recorded_success THEN 1 ELSE 0,
                  rec_f |-> IF r.recorded_failure THEN 1 ELSE 0]
        ELSE LET x == call_api_except(cb, t, outcome, ErrorType(outcome))
             IN  [pc |-> "returned", cb |-> x.cb, cache |-> cache,
                  response |-> x.response, rec_s |-> 0, rec_f |-> 1]

\* call_api that asks the breaker again before each further attempt
call_api_attempt_gate_each_try(cb, cache, key, outcome, tries, t) ==
    LET step == execute_with_retry(outcome, tries)
        g == can_execute(cb, t)
    IN  IF step = "retry"
        THEN IF g.ok
             THEN [pc |-> "backoff", cb |-> g.cb, cache |-> cache,
                   response |-> NoResponse, rec_s |-> 0, rec_f |-> 0]
             ELSE LET x == call_api_except(g.cb, t, CircuitOpenMessage, "IntegrationError")
                  IN  [pc |-> "returned", cb |-> x.cb, cache |-> cache,
                       response |-> x.response, rec_s |-> 0, rec_f |-> 1]
        ELSE IF step = "return"
        THEN LET r == call_api_success(cb, cache, key, t)
             IN  [pc |-> "returned", cb |-> r.cb, cache |-> r.cache,
                  response |-> r.response,
                  rec_s |-> IF r.recorded_success THEN 1 ELSE 0,
                  rec_f |-> IF r.recorded_failure THEN 1 ELSE 0]
        ELSE LET x == call_api_except(cb, t, outcome, ErrorType(outcome))
             IN  [pc |-> "returned", cb |-> x.cb, cache |-> cache,
                  response |-> x.response, rec_s |-> 0, rec_f |-> 1]

\* call_api that stores the failure response it returns
call_api_attempt_caches_failure(cb, cache, key, outcome, tries, t) ==
    LET step == execute_with_retry(outcome, tries)
    IN  IF step = "retry"
        THEN [pc |-> "backoff", cb |-> cb, cache |-> cache,
              response |-> NoResponse, rec_s |-> 0, rec_f |-> 0]
        ELSE IF step = "return"
        THEN LET r == call_api_success(cb, cache, key, t)
             IN  [pc |-> "returned", cb |-> r.cb, cache |-> r.cache,
                  response |-> r.response,
                  rec_s |-> IF r.recorded_success THEN 1 ELSE 0,
                  rec_f |-> IF r.recorded_failure THEN 1 ELSE 0]
        ELSE LET x == call_api_except(cb, t, outcome, ErrorType(outcome))
             IN  [pc |-> "returned", cb |-> x.cb,
                  cache |-> lru_set(cache, key, x.response),
                  response |-> x.response, rec_s |-> 0, rec_f |-> 1]

\* call_api after one more session.request attempt, the tries-th of the
\* call, has come to outcome: what the call does before its next await
call_api_attempt(cb, cache, key, outcome, tries, t) ==
    LET step == execute_with_retry(outcome, tries)
    IN  IF step = "retry"
        THEN [pc |-> "backoff", cb |-> cb, cache |-> cache,
              response |-> NoResponse, rec_s |-> 0, rec_f |-> 0]
        ELSE IF step = "return"
        THEN LET r == call_api_success(cb, cache, key, t)
             IN  [pc |-> "returned", cb |-> r.cb, cache |-> r.cache,
                  response |-> r.response,
                  rec_s |-> IF r.recorded_success THEN 1 ELSE 0,
                  rec_f |-> IF r.recorded_failure THEN 1 ELSE 0]
        ELSE LET x == call_api_except(cb, t, outcome, ErrorType(outcome))
             IN  [pc |-> "returned", cb |-> x.cb, cache |-> cache,
                  response |-> x.response, rec_s |-> 0, rec_f |-> 1]

(***************************************************************************)
(* call_api as the steps its coroutine takes between awaits.               *)
(***************************************************************************)
CallApi(c, key) ==
    /\ calls[c].pc = "idle"
    /\ LET r == call_api_gates(circuit_breaker, rate_limiter, response_cache, key, now)
           g == can_execute(circuit_breaker, now)
           h1 == HistCanExecute(hist, circuit_breaker, g.cb)
       IN  /\ r.raised => circuit_breaker.failure_count < MaxFailureCount
           /\ circuit_breaker' = r.cb
           /\ rate_limiter' = r.rl
           /\ limiter_hist' = IF r.allows > 0
                              THEN LimiterHistAllow(limiter_hist, rate_limiter,
                                                    allow_request(rate_limiter, now), now)
                              ELSE limiter_hist
           /\ response_cache' = r.cache
           /\ hist' = IF r.raised THEN HistFailure(h1, r.cb, ~g.ok) ELSE h1
           /\ LET hit == r.pc = "returned" /\ ~r.raised
                   cs == IF hit THEN hit_marks(calls, key) ELSE calls
               IN  calls' = [cs EXCEPT ![c] =
                      [pc |-> r.pc, key |-> key, tries |-> 0, response |-> r.response,
                       checks |-> r.checks, allows |-> r.allows, lookups |-> r.lookups,
                       rec_s |-> 0, rec_f |-> IF r.raised THEN 1 ELSE 0,
                       gate |-> IF g.ok THEN g.cb.state ELSE "",
                       stored |-> hit,
                       audit |-> IF r.raised THEN log_api_call ELSE 0]]
    /\ UNCHANGED <<aloneVars, config, now, last_call, transport_calls>>

Transport(c, outcome) ==
    /\ calls[c].pc = "transport"
    /\ transport_calls < MaxTransportCalls
    /\ circuit_breaker.failure_count < MaxFailureCount
    /\ transport_calls' = transport_calls + 1
    /\ LET tries == calls[c].tries + 1
           r == call_api_attempt(circuit_breaker, response_cache, calls[c].key,
                                 outcome, tries, now)
           h1 == IF r.rec_s > 0
                 THEN HistSuccess(hist, record_success(circuit_breaker, now))
                 ELSE hist
       IN  /\ circuit_breaker' = r.cb
           /\ response_cache' = r.cache
           /\ hist' = IF r.rec_f > 0 THEN HistFailure(h1, r.cb, FALSE) ELSE h1
           /\ LET cs == IF r.cache # response_cache
                         THEN set_unlinks(calls, r.cache, calls[c].key)
                         ELSE calls
               IN  calls' = [cs EXCEPT ![c].pc = r.pc,
                                       ![c].tries = tries,
                                       ![c].response = r.response,
                                       ![c].rec_s = @ + r.rec_s,
                                       ![c].rec_f = @ + r.rec_f,
                                       ![c].stored = IMPORTS_AVAILABLE /\ r.response.success,
                                       ![c].audit = @ + IF r.pc = "returned"
                                                        THEN log_api_call ELSE 0]
    /\ UNCHANGED <<aloneVars, config, now, last_call, rate_limiter, limiter_hist>>

\* the sleep between two attempts ends
Backoff(c) ==
    /\ calls[c].pc = "backoff"
    /\ calls' = [calls EXCEPT ![c].pc = "transport"]
    /\ UNCHANGED <<aloneVars, config, now, breakerVars, rate_limiter, limiter_hist, response_cache,
                   transport_calls>>

\* what a call of a cache's interface did: its return (found, value; for
\* set and delete found tells whether the key was stored before) and the
\* keys it took out of the cache
CacheCall(op, key, found, value, before, after) ==
    [op |-> op, key |-> key, found |-> found, value |-> value,
     removed |-> CacheKeys(before) \ CacheKeys(after)]

\* the keys of a TTLCache in the order of their latest get hit or set,
\* oldest first (observation only)
Touch(recency, key, cache) ==
    Append(SelectSeq(recency, LAMBDA k : k # key /\ k \in CacheKeys(cache)), key)

Forget(recency, cache) == SelectSeq(recency, LAMBDA k : k \in CacheKeys(cache))

\* LRUCache.get(key)
LruGet(key) ==
    /\ LET r == lru_get(response_cache, key)
       IN  /\ response_cache' = r.cache
           /\ cache_call' = CacheCall("lru_get", key, r.found, r.value,
                                      response_cache, r.cache)
    /\ UNCHANGED <<waits, threadVars, lockVars, ttl_cache, ttl_recency, config, now, breakerVars,
                   rate_limiter, limiter_hist, transport_calls, calls>>

\* LRUCache.set(key, value)
LruSet(key, value) ==
    /\ response_cache' = lru_set(response_cache, key, value)
    /\ cache_call' = CacheCall("lru_set", key, key \in CacheKeys(response_cache),
                               value, response_cache, response_cache')
    /\ UNCHANGED <<waits, threadVars, lockVars, ttl_cache, ttl_recency, config, now, breakerVars,
                   rate_limiter, limiter_hist, transport_calls, calls>>

\* LRUCache.delete(key)
LruDelete(key) ==
    /\ response_cache' = lru_delete(response_cache, key)
    /\ cache_call' = CacheCall("lru_delete", key, key \in CacheKeys(response_cache),
                               NoValue, response_cache, response_cache')
    /\ UNCHANGED <<waits, threadVars, lockVars, ttl_cache, ttl_recency, config, now, breakerVars,
                   rate_limiter, limiter_hist, transport_calls, calls>>

\* LRUCache.clear()
LruClear ==
    /\ response_cache' = <<>>
    /\ cache_call' = CacheCall("lru_clear", "", FALSE, NoValue, response_cache, <<>>)
    /\ UNCHANGED <<waits, threadVars, lockVars, ttl_cache, ttl_recency, config, now, breakerVars,
                   rate_limiter, limiter_hist, transport_calls, calls>>

\* TTLCache.get(key)
TtlGet(key) ==
    /\ LET r == ttl_get(ttl_cache, key, now)
       IN  /\ ttl_cache' = r.cache
           /\ ttl_recency' = IF r.found THEN Touch(ttl_recency, key, r.cache)
                             ELSE Forget(ttl_recency, r.cache)
           /\ cache_call' = CacheCall("ttl_get", key, r.found, r.value,
                                      ttl_cache, r.cache)
    /\ UNCHANGED <<waits, threadVars, lockVars, config, now, breakerVars, clientVars>>

\* TTLCache.set(key, value, ttl)
TtlSet(key, value, ttl) ==
    /\ ttl_cache' = ttl_set(ttl_cache, key, value, ttl, now)
    /\ ttl_recency' = Touch(ttl_recency, key, ttl_cache')
    /\ cache_call' = CacheCall("ttl_set", key, key \in CacheKeys(ttl_cache),
                               value, ttl_cache, ttl_cache')
    /\ UNCHANGED <<waits, threadVars, lockVars, config, now, breakerVars, clientVars>>

\* TTLCache.delete(key)
TtlDelete(key) ==
    /\ ttl_cache' = CacheRemove(ttl_cache, key)
    /\ ttl_recency' = Forget(ttl_recency, ttl_cache')
    /\ cache_call' = CacheCall("ttl_delete", key, key \in CacheKeys(ttl_cache),
                               NoValue, ttl_cache, ttl_cache')
    /\ UNCHANGED <<waits, threadVars, lockVars, config, now, breakerVars, clientVars>>

\* TTLCache.clear()
TtlClear ==
    /\ ttl_cache' = <<>>
    /\ ttl_recency' = <<>>
    /\ cache_call' = CacheCall("ttl_clear", "", FALSE, NoValue, ttl_cache, <<>>)
    /\ UNCHANGED <<waits, threadVars, lockVars, config, now, breakerVars, clientVars>>

(***************************************************************************)
(* TTLCache called by several threads: each method reads the clock, takes  *)
(* the lock, runs its body statement by statement and releases the lock.   *)
(***************************************************************************)
IdleCacheThread ==
    [pc |-> "idle", op |-> "", key |-> "", value |-> NoValue, time |-> 0,
     expiry_time |-> 0, entry |-> [value |-> NoValue, expiry |-> 0],
     found |-> FALSE, result |-> NoValue, seen |-> <<>>, room_time |-> 0]

\* a thread calls get(key), set(key, value, ttl) or delete(key): the lines
\* before `with self._lock` read time.time(), get for current_time and set
\* for expiry_time
CtCall(t, op, key, value, ttl) ==
    /\ cache_threads[t].pc = "idle"
    /\ cache_calls < MaxCacheCalls
    /\ cache_calls' = cache_calls + 1
    /\ cache_threads' = [cache_threads EXCEPT ![t] =
           [IdleCacheThread EXCEPT
               !.pc = "acquire", !.op = op, !.key = key,
               !.value = IF op = "set" THEN value ELSE NoValue,
               !.time = IF op = "get" THEN now ELSE 0,
               !.expiry_time = IF op = "set"
                               THEN now + (IF ttl = None THEN default_ttl ELSE ttl)
                               ELSE 0]]
    /\ UNCHANGED <<lock, threadVars, waits, ttl_cache, ttl_recency, cache_call, config,
                   now, breakerVars, clientVars>>

\* with self._lock:
CtAcquire(t) ==
    /\ cache_threads[t].pc = "acquire"
    /\ lock_acquirable(lock, t)
    /\ lock' = t
    /\ cache_threads' = [cache_threads EXCEPT ![t].pc = "body", ![t].seen = ttl_cache]
    /\ UNCHANGED <<cache_calls, threadVars, waits, ttl_cache, ttl_recency, cache_call, config,
                   now, breakerVars, clientVars>>

\* the first part of the body: get reads the entry of its key, set makes
\* room, delete removes the key
CtBody(t) ==
    /\ cache_threads[t].pc = "body"
    /\ LET me == cache_threads[t]
           stored == me.key \in CacheKeys(ttl_cache)
       IN  IF me.op = "get"
           THEN /\ cache_threads' = [cache_threads EXCEPT ![t] =
                       IF stored
                       THEN [me EXCEPT !.pc = "decide",
                                !.entry = [value |-> ttl_cache[CacheIndex(ttl_cache, me.key)].value,
                                           expiry |-> ttl_cache[CacheIndex(ttl_cache, me.key)].expiry]]
                       ELSE [me EXCEPT !.pc = "release"]]
                /\ ttl_cache' = ttl_cache
           ELSE IF me.op = "set"
           THEN /\ ttl_cache' = ttl_make_room(ttl_cache, me.key, now)
                /\ cache_threads' = [cache_threads EXCEPT ![t].pc = "write",
                                                          ![t].room_time = now]
           ELSE /\ ttl_cache' = CacheRemove(ttl_cache, me.key)
                /\ cache_threads' = [cache_threads EXCEPT ![t].pc = "release",
                                                          ![t].found = stored]
    /\ UNCHANGED <<lock, cache_calls, threadVars, waits, ttl_recency, cache_call, config,
                   now, breakerVars, clientVars>>

\* get: the entry read is returned or, if expired, deleted
CtDecide(t) ==
    /\ cache_threads[t].pc = "decide"
    /\ LET me == cache_threads[t]
       IN  IF me.time < me.entry.expiry
           THEN /\ cache_threads' = [cache_threads EXCEPT ![t].pc = "release",
                                        ![t].found = TRUE, ![t].result = me.entry.value,
                                        ![t].entry = IdleCacheThread.entry]
                /\ ttl_cache' = ttl_cache
           ELSE /\ cache_threads' = [cache_threads EXCEPT ![t].pc = "release",
                                        ![t].entry = IdleCacheThread.entry]
                /\ ttl_cache' = CacheRemove(ttl_cache, me.key)
    /\ UNCHANGED <<lock, cache_calls, threadVars, waits, ttl_recency, cache_call, config,
                   now, breakerVars, clientVars>>

\* set: self._cache[key] = (value, expiry_time)
CtWrite(t) ==
    /\ cache_threads[t].pc = "write"
    /\ ttl_cache' = ttl_store(ttl_cache, cache_threads[t].key, cache_threads[t].value,
                              cache_threads[t].expiry_time)
    /\ cache_threads' = [cache_threads EXCEPT ![t].pc = "release"]
    /\ UNCHANGED <<lock, cache_calls, threadVars, waits, ttl_recency, cache_call, config,
                   now, breakerVars, clientVars>>

\* the with block ends and the method returns
CtRelease(t) ==
    /\ cache_threads[t].pc = "release"
    /\ lock' = NoThread
    /\ cache_threads' = [cache_threads EXCEPT ![t] = IdleCacheThread]
    /\ UNCHANGED <<cache_calls, threadVars, waits, ttl_cache, ttl_recency, cache_call, config,
                   now, breakerVars, clientVars>>

\* the decorator sleeps before the next attempt of the call
Sleep ==
    /\ Len(waits) < max_tries - 1
    /\ \E seconds \in full_jitter(expo(Len(waits))) :
          waits' = Append(waits, seconds)
    /\ UNCHANGED <<threadVars, lockVars, ttl_cache, ttl_recency, cache_call, config, now, breakerVars,
                   clientVars>>

\* the call is over; the next call starts a new wait generator
EndCall ==
    /\ waits # <<>>
    /\ waits' = <<>>
    /\ UNCHANGED <<threadVars, lockVars, ttl_cache, ttl_recency, cache_call, config, now, breakerVars,
                   clientVars>>

\* the task running call_api is cancelled while it awaits the transport or
\* sleeps between two attempts: asyncio.CancelledError is raised at the
\* await; it is not an Exception, so the except branch does not run and
\* the error leaves call_api
Cancel(c) ==
    /\ calls[c].pc \in {"transport", "backoff"}
    /\ calls' = [calls EXCEPT ![c].pc = "cancelled"]
    /\ UNCHANGED <<aloneVars, config, now, breakerVars, rate_limiter, limiter_hist,
                   response_cache, transport_calls>>

\* the caller takes the response or the error; it may call again
Return(c) ==
    /\ calls[c].pc \in {"returned", "cancelled"}
    /\ calls' = [calls EXCEPT ![c] = IdleCall]
    /\ UNCHANGED <<aloneVars, config, now, breakerVars, rate_limiter, limiter_hist, response_cache,
                   transport_calls>>

(***************************************************************************)
(* record_failure called by several threads. The breaker has no lock, so   *)
(* the statements of two calls interleave; failure_count += 1 is a load    *)
(* and a store.                                                            *)
(***************************************************************************)
IdleThread == [pc |-> "idle", loaded |-> 0, saw_closed |-> FALSE]

\* a thread calls record_failure(): it loads self.failure_count
RfLoad(t) ==
    /\ threads[t].pc = "idle"
    /\ race.finished + Cardinality({u \in Threads : threads[u].pc # "idle"})
          < MaxFailureCount
    /\ threads' = [threads EXCEPT ![t] =
           [pc |-> "store", loaded |-> circuit_breaker.failure_count,
            saw_closed |-> FALSE]]
    /\ UNCHANGED <<race, lockVars, waits, ttl_cache, ttl_recency, cache_call, config,
                   now, breakerVars, clientVars>>

\* self.failure_count = loaded value + 1
RfStore(t) ==
    /\ threads[t].pc = "store"
    /\ circuit_breaker' = [circuit_breaker EXCEPT !.failure_count = threads[t].loaded + 1]
    /\ threads' = [threads EXCEPT ![t].pc = "stamp"]
    /\ UNCHANGED <<race, lockVars, waits, ttl_cache, ttl_recency, cache_call, config,
                   now, last_call, hist, clientVars>>

\* self.last_failure_time = time.time()
RfStamp(t) ==
    /\ threads[t].pc = "stamp"
    /\ circuit_breaker' = [circuit_breaker EXCEPT !.last_failure_time = now]
    /\ threads' = [threads EXCEPT ![t].pc = "check"]
    /\ UNCHANGED <<race, lockVars, waits, ttl_cache, ttl_recency, cache_call, config,
                   now, last_call, hist, clientVars>>

\* the tests on self.state and self.failure_count: the call goes on to
\* _transition_to_open or returns
RfCheck(t) ==
    /\ threads[t].pc = "check"
    /\ LET opens == \/ /\ circuit_breaker.state = CLOSED
                       /\ circuit_breaker.failure_count >= failure_threshold
                    \/ circuit_breaker.state = HALF_OPEN
       IN  /\ threads' = [threads EXCEPT ![t] =
                  IF opens
                  THEN [@ EXCEPT !.pc = "open",
                                 !.saw_closed = (circuit_breaker.state = CLOSED)]
                  ELSE IdleThread]
           /\ race' = IF opens THEN race
                      ELSE [race EXCEPT !.finished = @ + 1]
    /\ UNCHANGED <<lockVars, waits, ttl_cache, ttl_recency, cache_call, config,
                   now, breakerVars, clientVars>>

\* _transition_to_open(), then record_failure returns
RfOpen(t) ==
    /\ threads[t].pc = "open"
    /\ circuit_breaker' = transition_to_open(circuit_breaker, now)
    /\ threads' = [threads EXCEPT ![t] = IdleThread]
    /\ race' = [finished |-> race.finished + 1,
                opened |-> race.opened + (IF threads[t].saw_closed THEN 1 ELSE 0)]
    /\ UNCHANGED <<lockVars, waits, ttl_cache, ttl_recency, cache_call, config,
                   now, last_call, hist, clientVars>>

(***************************************************************************)
(* The breaker's public operations, called directly.                       *)
(***************************************************************************)
CanExecute ==
    LET r == can_execute(circuit_breaker, now)
    IN  /\ circuit_breaker' = r.cb
        /\ last_call' = [op |-> "can_execute", value |-> r.ok, snapshot |-> NoSnapshot,
                       before |-> circuit_breaker]
        /\ hist' = HistCanExecute(hist, circuit_breaker, r.cb)
        /\ UNCHANGED <<aloneVars, config, now, clientVars>>

RecordSuccess ==
    LET cb2 == record_success(circuit_breaker, now)
    IN  /\ circuit_breaker' = cb2
        /\ last_call' = [op |-> "record_success", value |-> FALSE, snapshot |-> NoSnapshot,
                       before |-> circuit_breaker]
        /\ hist' = HistSuccess(hist, cb2)
        /\ UNCHANGED <<aloneVars, config, now, clientVars>>

RecordFailure ==
    /\ circuit_breaker.failure_count < MaxFailureCount
    /\ LET cb2 == record_failure(circuit_breaker, now)
       IN  /\ circuit_breaker' = cb2
           /\ last_call' = [op |-> "record_failure", value |-> FALSE, snapshot |-> NoSnapshot,
                           before |-> circuit_breaker]
           /\ hist' = HistFailure(hist, cb2, FALSE)
    /\ UNCHANGED <<aloneVars, config, now, clientVars>>

GetState ==
    /\ last_call' = [op |-> "get_state", value |-> FALSE,
                     snapshot |-> get_state(circuit_breaker, now),
                     before |-> circuit_breaker]
    /\ UNCHANGED <<aloneVars, config, now, circuit_breaker, hist, clientVars>>

(***************************************************************************)
(* The cache's public operation, called directly on the client's cache:    *)
(* set(key, value) with a response as call_api builds it on success.       *)
(***************************************************************************)
CacheSet(key) ==
    /\ response_cache' = lru_set(response_cache, key, SuccessResponse(FALSE))
    /\ calls' = set_unlinks(calls, response_cache', key)
    /\ UNCHANGED <<aloneVars, config, now, breakerVars, rate_limiter, limiter_hist, transport_calls>>

(***************************************************************************)
(* The limiter's public operation, called directly.                        *)
(***************************************************************************)
AllowRequest ==
    /\ limiter_hist.asked < MaxAsked \/ WindowOver(rate_limiter, now)
    /\ LET a == allow_request(rate_limiter, now)
       IN  /\ rate_limiter' = a.rl
           /\ limiter_hist' = LimiterHistAllow(limiter_hist, rate_limiter, a, now)
    /\ UNCHANGED <<aloneVars, config, now, breakerVars, response_cache, transport_calls, calls>>

Tick ==
    /\ now < MaxTime
    /\ now' = now + 1
    /\ UNCHANGED <<aloneVars, config, breakerVars, clientVars>>

Init ==
    /\ config \in APIConfiguration
    /\ now = 1
    /\ circuit_breaker = CircuitBreakerInit(1)
    /\ last_call = [op |-> "init", value |-> FALSE, snapshot |-> NoSnapshot,
                    before |-> CircuitBreakerInit(1)]
    /\ hist = HistInit
    /\ rate_limiter = RateLimiterInit(1)
    /\ limiter_hist = LimiterHistInit(1)
    /\ response_cache = <<>>
    /\ transport_calls = 0
    /\ calls = [c \in Callers |-> IdleCall]
    /\ waits = <<>>
    /\ ttl_cache = <<>>
    /\ ttl_recency = <<>>
    /\ cache_call = NoCacheCall
    /\ threads = [t \in Threads |-> IdleThread]
    /\ race = [finished |-> 0, opened |-> 0]
    /\ cache_threads = [t \in Threads |-> IdleCacheThread]
    /\ lock = NoThread
    /\ cache_calls = 0

\* the breaker driven through its own interface
Next ==
    \/ CanExecute
    \/ RecordSuccess
    \/ RecordFailure
    \/ GetState
    \/ Tick

Spec == Init /\ [][Next]_vars

\* the breaker driven by the client's callers
ClientNext ==
    \/ Tick
    \/ \E c \in Callers, key \in Keys : CallApi(c, key)
    \/ \E c \in Callers, outcome \in TransportOutcomes : Transport(c, outcome)
    \/ \E c \in Callers : Backoff(c)
    \/ \E c \in Callers : Return(c)

ClientSpec == Init /\ [][ClientNext]_vars

\* one caller of a client whose cache is also filled from outside
WarmNext ==
    \/ Tick
    \/ \E key \in Keys : CacheSet(key)
    \/ \E key \in Keys : CallApi("c1", key)
    \/ \E outcome \in TransportOutcomes : Transport("c1", outcome)
    \/ Backoff("c1")
    \/ Return("c1")

WarmSpec == Init /\ [][WarmNext]_vars

\* the limiter driven through its own interface
LimiterNext ==
    \/ AllowRequest
    \/ Tick

LimiterSpec == Init /\ [][LimiterNext]_vars

\* a cache built on its own; the client's configuration plays no part
CacheInit ==
    /\ Init
    /\ config = [max_retries |-> 3, retry_backoff_factor |-> 2]

\* the values stored in the caches on their own
CacheValues == {SuccessResponse(FALSE), SuccessResponse(TRUE)}

\* an LRUCache driven through its own interface
LRUNext ==
    \/ \E key \in CacheKeyDomain : LruGet(key)
    \/ \E key \in CacheKeyDomain, value \in CacheValues : LruSet(key, value)
    \/ \E key \in CacheKeyDomain : LruDelete(key)
    \/ LruClear

LRUSpec == CacheInit /\ [][LRUNext]_vars

\* a TTLCache driven through its own interface
TTLNext ==
    \/ \E key \in CacheKeyDomain : TtlGet(key)
    \/ \E key \in CacheKeyDomain, value \in CacheValues, ttl \in TtlArgs :
          TtlSet(key, value, ttl)
    \/ \E key \in CacheKeyDomain : TtlDelete(key)
    \/ TtlClear
    \/ Tick

TTLSpec == CacheInit /\ [][TTLNext]_vars

\* both caches, storing one value with one ttl
CacheNext ==
    \/ \E key \in CacheKeyDomain : LruGet(key)
    \/ \E key \in CacheKeyDomain : LruSet(key, SuccessResponse(FALSE))
    \/ \E key \in CacheKeyDomain : LruDelete(key)
    \/ LruClear
    \/ \E key \in CacheKeyDomain : TtlGet(key)
    \/ \E key \in CacheKeyDomain : TtlSet(key, SuccessResponse(FALSE), 1)
    \/ \E key \in CacheKeyDomain : TtlDelete(key)
    \/ TtlClear
    \/ Tick

CacheSpec == CacheInit /\ [][CacheNext]_vars

\* one caller whose task can be cancelled
CancelNext ==
    \/ Tick
    \/ \E key \in Keys : CallApi("c1", key)
    \/ \E outcome \in TransportOutcomes : Transport("c1", outcome)
    \/ Backoff("c1")
    \/ Cancel("c1")
    \/ Return("c1")

CancelSpec == Init /\ [][CancelNext]_vars

\* two callers of a client whose cache is also filled from outside, within
\* one window of the limiter; an attempt succeeds or meets a permanent error
SharedNext ==
    \/ \E key \in Keys : CacheSet(key)
    \/ \E c \in Callers, key \in Keys : CallApi(c, key)
    \/ \E c \in Callers, outcome \in {"ok", "http_4xx"} : Transport(c, outcome)
    \/ \E c \in Callers : Return(c)

SharedSpec == CacheInit /\ [][SharedNext]_vars

\* threads calling one TTLCache
LockNext ==
    \/ \E t \in Threads, key \in CacheKeyDomain :
          \/ CtCall(t, "get", key, NoValue, None)
          \/ CtCall(t, "set", key, SuccessResponse(FALSE), 1)
          \/ CtCall(t, "delete", key, NoValue, None)
    \/ \E t \in Threads : CtAcquire(t)
    \/ \E t \in Threads : CtBody(t)
    \/ \E t \in Threads : CtDecide(t)
    \/ \E t \in Threads : CtWrite(t)
    \/ \E t \in Threads : CtRelease(t)
    \/ Tick

LockSpec == CacheInit /\ [][LockNext]_vars

\* threads calling record_failure on one breaker
ThreadNext ==
    \/ \E t \in Threads : RfLoad(t)
    \/ \E t \in Threads : RfStore(t)
    \/ \E t \in Threads : RfStamp(t)
    \/ \E t \in Threads : RfCheck(t)
    \/ \E t \in Threads : RfOpen(t)
    \/ Tick

ThreadSpec == Init /\ [][ThreadNext]_vars

\* the waits of the retry decorator alone
BackoffNext ==
    \/ Sleep
    \/ EndCall
    \/ Tick

BackoffSpec == Init /\ [][BackoffNext]_vars

(***************************************************************************)
(* Properties of the breaker                                               *)
(***************************************************************************)
Elapsed(cb, t) == t - cb.last_failure_time >= recovery_timeout

\* C1: from Closed with failure_count = 0, k consecutive record_failure
\* calls leave the breaker Closed while k < failure_threshold and Open when
\* k = failure_threshold; while it is Open and the recovery timeout has not
\* elapsed since last_failure_time, can_execute returns false.
C1_OpensOnThreshold ==
    /\ (hist.k >= 0 /\ hist.k < failure_threshold
            => circuit_breaker.state = CLOSED)
    /\ (hist.k = failure_threshold => circuit_breaker.state = OPEN)
    /\ (circuit_breaker.state = OPEN /\ ~Elapsed(circuit_breaker, now)
            => ~can_execute(circuit_breaker, now).ok)
    /\ (last_call.op = "can_execute" /\ last_call.before.state = OPEN
        /\ ~Elapsed(last_call.before, now)
            => last_call.value = FALSE)

C1_Witness ==
    /\ hist.k = failure_threshold
    /\ circuit_breaker.state = OPEN
    /\ circuit_breaker.failure_count = failure_threshold
    /\ last_call.op = "can_execute"
    /\ last_call.value = FALSE

\* C2: a can_execute call on an Open breaker whose recovery timeout has
\* elapsed returns true and leaves the breaker HalfOpen with
\* success_count = 0.
C2_Recovers ==
    [][(circuit_breaker.state = OPEN /\ Elapsed(circuit_breaker, now) /\ CanExecute)
        => /\ last_call'.value = TRUE
           /\ circuit_breaker'.state = HALF_OPEN
           /\ circuit_breaker'.success_count = 0]_vars

C2_Witness ==
    /\ last_call.op = "can_execute"
    /\ last_call.before.state = OPEN
    /\ last_call.value = TRUE
    /\ circuit_breaker.state = HALF_OPEN
    /\ now - circuit_breaker.last_failure_time = recovery_timeout

\* C3: a can_execute call on an Open breaker whose recovery timeout has not
\* elapsed returns false and changes no field of the breaker.
C3_RefusalHasNoSideEffect ==
    [][(circuit_breaker.state = OPEN /\ ~Elapsed(circuit_breaker, now) /\ CanExecute)
        => /\ last_call'.value = FALSE
           /\ circuit_breaker' = circuit_breaker]_vars

C3_Witness ==
    /\ last_call.op = "can_execute"
    /\ last_call.value = FALSE
    /\ last_call.before = circuit_breaker
    /\ circuit_breaker.state = OPEN
    /\ circuit_breaker.last_failure_time < now

\* C4: in HalfOpen a record_success call increments success_count and the
\* breaker stays HalfOpen while the count is below success_threshold; the
\* call that makes it reach success_threshold closes the breaker with
\* failure_count = 0 and success_count = 0.
C4_HalfOpenSuccess ==
    [][(circuit_breaker.state = HALF_OPEN /\ RecordSuccess)
        => IF circuit_breaker.success_count + 1 < success_threshold
           THEN /\ circuit_breaker'.state = HALF_OPEN
                /\ circuit_breaker'.success_count = circuit_breaker.success_count + 1
           ELSE /\ circuit_breaker'.state = CLOSED
                /\ circuit_breaker'.failure_count = 0
                /\ circuit_breaker'.success_count = 0]_vars

C4_Witness ==
    /\ last_call.op = "record_success"
    /\ last_call.before.state = HALF_OPEN
    /\ last_call.before.success_count = success_threshold - 1
    /\ last_call.before.failure_count >= failure_threshold
    /\ circuit_breaker.state = CLOSED

\* C5: in HalfOpen one record_failure call opens the breaker whatever the
\* number of successes counted, sets success_count to 0 and stamps
\* last_failure_time and last_state_change with the current time.
C5_HalfOpenFailure ==
    [][(circuit_breaker.state = HALF_OPEN /\ RecordFailure)
        => /\ circuit_breaker'.state = OPEN
           /\ circuit_breaker'.success_count = 0
           /\ circuit_breaker'.last_failure_time = now
           /\ circuit_breaker'.last_state_change = now]_vars

C5_Witness ==
    /\ last_call.op = "record_failure"
    /\ last_call.before.state = HALF_OPEN
    /\ last_call.before.success_count > 0
    /\ circuit_breaker.state = OPEN

\* C6: in Closed record_success sets failure_count to 0, and as long as no
\* run of consecutive record_failure calls has reached failure_threshold
\* the breaker is Closed.
C6_OnlyConsecutiveFailuresOpen ==
    /\ [](~hist.long_run => circuit_breaker.state = CLOSED)
    /\ [][(circuit_breaker.state = CLOSED /\ RecordSuccess)
            => circuit_breaker'.failure_count = 0]_vars

C6_Witness ==
    /\ ~hist.long_run
    /\ last_call.op = "record_success"
    /\ last_call.before.state = CLOSED
    /\ last_call.before.failure_count = failure_threshold - 1
    /\ circuit_breaker.failure_count = 0

\* C7: the breaker's state changes only by Closed->Open (record_failure
\* reaching failure_threshold), Open->HalfOpen (can_execute after the
\* recovery timeout), HalfOpen->Closed (record_success reaching
\* success_threshold) and HalfOpen->Open (record_failure); get_state
\* changes nothing.
C7_DefinedTransitionsOnly ==
    [][/\ circuit_breaker'.state # circuit_breaker.state =>
            \/ /\ circuit_breaker.state = CLOSED
               /\ circuit_breaker'.state = OPEN
               /\ RecordFailure
               /\ circuit_breaker.failure_count + 1 >= failure_threshold
            \/ /\ circuit_breaker.state = OPEN
               /\ circuit_breaker'.state = HALF_OPEN
               /\ CanExecute
               /\ Elapsed(circuit_breaker, now)
            \/ /\ circuit_breaker.state = HALF_OPEN
               /\ circuit_breaker'.state = CLOSED
               /\ RecordSuccess
               /\ circuit_breaker.success_count + 1 >= success_threshold
            \/ /\ circuit_breaker.state = HALF_OPEN
               /\ circuit_breaker'.state = OPEN
               /\ RecordFailure
       /\ GetState => circuit_breaker' = circuit_breaker]_vars

C7_Witness ==
    /\ last_call.op = "get_state"
    /\ last_call.snapshot.state = CLOSED
    /\ last_call.snapshot.time_until_half_open = 0
    /\ circuit_breaker.state = CLOSED
    /\ circuit_breaker.last_state_change > circuit_breaker.last_failure_time
    /\ circuit_breaker.last_failure_time > 0

(***************************************************************************)
(* Properties of call_api                                                  *)
(***************************************************************************)
\* the breaker gate refuses a call made now
GateRefuses == ~can_execute(circuit_breaker, now).ok

\* C8: when can_execute is false, call_api returns at once a failure
\* response that says the circuit is open; the transport is not invoked,
\* the cache is not looked up and the rate limiter is not asked, so its
\* count is unchanged.
C8_FailFastOnOpenBreaker ==
    [][\A c \in Callers, key \in Keys :
        (CallApi(c, key) /\ GateRefuses)
        => /\ calls'[c].pc = "returned"
           /\ calls'[c].response.success = FALSE
           /\ calls'[c].response.error_message = CircuitOpenMessage
           /\ transport_calls' = transport_calls
           /\ calls'[c].tries = 0
           /\ calls'[c].lookups = 0
           /\ response_cache' = response_cache
           /\ calls'[c].allows = 0
           /\ rate_limiter' = rate_limiter]_vars

C8_Witness ==
    \E c \in Callers :
        /\ calls[c].pc = "returned"
        /\ calls[c].response.error_message = CircuitOpenMessage
        /\ calls[c].checks = 1
        /\ circuit_breaker.state = OPEN
        /\ transport_calls = failure_threshold
        /\ rate_limiter.count = failure_threshold

\* C9: a call the breaker gate refuses is not reported to the breaker:
\* state, failure_count and last_failure_time are the same after it.
C9_RefusedCallNotRecorded ==
    [][\A c \in Callers, key \in Keys :
        (CallApi(c, key) /\ GateRefuses)
        => /\ circuit_breaker'.state = circuit_breaker.state
           /\ circuit_breaker'.failure_count = circuit_breaker.failure_count
           /\ circuit_breaker'.last_failure_time = circuit_breaker.last_failure_time]_vars

\* C10: with the breaker Open and the latest failure that was not a refusal
\* of the breaker gate at time t, a call made at a time >= t +
\* recovery_timeout is not refused by the breaker gate, however many calls
\* were refused in between.
C10_RecoversUnderTraffic ==
    [][\A c \in Callers, key \in Keys :
        (/\ CallApi(c, key)
         /\ circuit_breaker.state = OPEN
         /\ now >= hist.last_real_failure + recovery_timeout)
        => calls'[c].response.error_message # CircuitOpenMessage]_vars

\* the breaker gate lets a call made now through and the rate limiter
\* refuses it
LimiterRefuses ==
    /\ ~GateRefuses
    /\ IMPORTS_AVAILABLE
    /\ ~allow_request(rate_limiter, now).ok

\* C11: when can_execute is true and allow_request is false, call_api
\* returns a failure response that says the rate limit is exceeded, and the
\* transport is not invoked: the call never reaches _execute_with_retry.
C11_FailFastOnRateLimit ==
    [][\A c \in Callers, key \in Keys :
        (CallApi(c, key) /\ LimiterRefuses)
        => /\ calls'[c].pc = "returned"
           /\ calls'[c].response.success = FALSE
           /\ calls'[c].response.error_message = RateLimitMessage
           /\ calls'[c].tries = 0
           /\ transport_calls' = transport_calls]_vars

C11_Witness ==
    \E c \in Callers :
        /\ calls[c].pc = "returned"
        /\ calls[c].response.error_message = RateLimitMessage
        /\ calls[c].checks = 1
        /\ calls[c].allows = 1
        /\ calls[c].tries = 0
        /\ rate_limiter.count = max_requests

\* C12: a call the rate limiter refuses is not reported to the breaker: it
\* leaves failure_count and the state as the breaker gate left them, so it
\* opens neither a Closed nor a HalfOpen breaker.
C12_RateLimitedCallNotRecorded ==
    [][\A c \in Callers, key \in Keys :
        (CallApi(c, key) /\ LimiterRefuses)
        => /\ calls'[c].rec_f = 0
           /\ circuit_breaker' = can_execute(circuit_breaker, now).cb]_vars

(***************************************************************************)
(* Properties of the rate limiter                                          *)
(***************************************************************************)
\* C13: in one window exactly the first max_requests allow_request calls
\* return true and every further one false; a refused call does not raise
\* the count, so count <= max_requests always.
C13_WindowBound ==
    /\ rate_limiter.count <= max_requests
    /\ limiter_hist.granted = IF limiter_hist.asked < max_requests
                              THEN limiter_hist.asked ELSE max_requests
    /\ rate_limiter.count = limiter_hist.granted
    /\ (limiter_hist.asked > 0
            => (limiter_hist.value <=> limiter_hist.asked <= max_requests))

C13_Witness ==
    /\ limiter_hist.asked > max_requests + 1
    /\ limiter_hist.value = FALSE
    /\ limiter_hist.before.count = max_requests
    /\ rate_limiter.count = max_requests

\* C14: an allow_request call made when now - window_start >= time_window
\* starts a new window at now with the count at 0 before it decides, so it
\* returns true and leaves the count at 1 even if the window before was
\* used up; the limiter changes only in an allow_request call.
C14_LazyRollover ==
    [][/\ (AllowRequest /\ WindowOver(rate_limiter, now))
            => /\ rate_limiter'.window_start = now
               /\ rate_limiter'.count = 1
               /\ limiter_hist'.value = TRUE
       /\ rate_limiter' # rate_limiter => AllowRequest]_vars

C14_Witness ==
    /\ limiter_hist.before.count = max_requests
    /\ WindowOver(limiter_hist.before, limiter_hist.at)
    /\ limiter_hist.at > limiter_hist.before.window_start + time_window
    /\ limiter_hist.value = TRUE
    /\ rate_limiter = [window_start |-> limiter_hist.at, count |-> 1]

(***************************************************************************)
(* Properties of call_api with entries in the cache                        *)
(***************************************************************************)
\* both gates let a call made now through and the cache holds its key
CacheAnswers(key) ==
    /\ ~GateRefuses
    /\ ~LimiterRefuses
    /\ IMPORTS_AVAILABLE
    /\ key \in CacheKeys(response_cache)

\* C15: a call answered from the cache returns a success response with
\* cached = true, invokes no transport and calls neither record_success nor
\* record_failure: failure_count and success_count are as before the call.
C15_CacheHitBypassesBreaker ==
    [][\A c \in Callers, key \in Keys :
        (CallApi(c, key) /\ CacheAnswers(key))
        => /\ calls'[c].pc = "returned"
           /\ calls'[c].response.success = TRUE
           /\ calls'[c].response.cached = TRUE
           /\ calls'[c].tries = 0
           /\ transport_calls' = transport_calls
           /\ calls'[c].rec_s = 0
           /\ calls'[c].rec_f = 0
           /\ circuit_breaker'.failure_count = circuit_breaker.failure_count
           /\ circuit_breaker'.success_count = circuit_breaker.success_count]_vars

C15_Witness ==
    \E c \in Callers :
        /\ calls[c].pc = "returned"
        /\ calls[c].response.success = TRUE
        /\ calls[c].response.cached = TRUE
        /\ calls[c].lookups = 1
        /\ calls[c].tries = 0
        /\ circuit_breaker.state = HALF_OPEN
        /\ circuit_breaker.failure_count > 0

\* C16: a call answered from the cache leaves the rate limiter's count as
\* it was before the call.
C16_CacheHitKeepsLimiterCount ==
    [][\A c \in Callers, key \in Keys :
        (CallApi(c, key) /\ CacheAnswers(key))
        => rate_limiter'.count = rate_limiter.count]_vars

(***************************************************************************)
(* Properties of call_api after the transport was invoked                  *)
(***************************************************************************)
\* C17: a transport success records a success, stores the response under
\* the request's cache key and returns a success response with
\* cached = false; the next call with the same key is then a cache hit.
C17_SuccessIsCached ==
    [][\A c \in Callers :
        Transport(c, "ok")
        => /\ calls'[c].pc = "returned"
           /\ calls'[c].rec_s = 1
           /\ calls'[c].rec_f = 0
           /\ calls'[c].response.success = TRUE
           /\ calls'[c].response.cached = FALSE
           /\ calls[c].key \in CacheKeys(response_cache')]_vars

\* C18: a call whose transport fails calls record_failure once for the
\* whole call: an attempt that is followed by a retry leaves the breaker as
\* it is, and the terminal failure raises failure_count by exactly 1.
C18_OneFailurePerCall ==
    [][\A c \in Callers, outcome \in TransportOutcomes \ {"ok"} :
        Transport(c, outcome)
        => /\ calls'[c].pc = "backoff"
              => /\ circuit_breaker' = circuit_breaker
                 /\ calls'[c].rec_f = 0
           /\ calls'[c].pc = "returned"
              => /\ circuit_breaker'.failure_count = circuit_breaker.failure_count + 1
                 /\ calls'[c].rec_f = 1
                 /\ calls'[c].rec_s = 0
                 /\ (circuit_breaker.state = CLOSED /\ circuit_breaker'.state = OPEN)
                    => circuit_breaker'.failure_count >= failure_threshold]_vars

C18_Witness ==
    \E c \in Callers :
        /\ calls[c].pc = "returned"
        /\ calls[c].tries = max_tries
        /\ calls[c].response.success = FALSE
        /\ calls[c].response.error_message \in RetriedOutcomes
        /\ calls[c].rec_f = 1
        /\ circuit_breaker.failure_count = 1
        /\ circuit_breaker.state = CLOSED

\* C19: a connection error or a timeout is retried until the configured
\* number of attempts (config.max_retries) is used up and never beyond it;
\* the loop stops at the first success and after the last attempt the last
\* error is the result.
C19_RetryUpToMaxAttempts ==
    [][\A c \in Callers, outcome \in TransportOutcomes :
        Transport(c, outcome)
        => /\ calls'[c].tries <= config.max_retries
           /\ (outcome \in {"client_error", "timeout"}
               /\ calls'[c].tries < config.max_retries)
              => calls'[c].pc = "backoff"
           /\ (outcome \in {"client_error", "timeout"}
               /\ calls'[c].tries = config.max_retries)
              => /\ calls'[c].pc = "returned"
                 /\ calls'[c].response.success = FALSE
                 /\ calls'[c].response.error_message = outcome
           /\ outcome = "ok" => calls'[c].pc = "returned"]_vars

\* C20: a 5xx response is retried like a timeout or a connection error.
C20_ServerErrorRetried ==
    [][\A c \in Callers :
        (Transport(c, "http_5xx") /\ calls'[c].tries < max_tries)
        => calls'[c].pc = "backoff"]_vars

\* C21: a 4xx response is never retried: the call whose first attempt gets
\* one has made exactly one transport invocation and returns that error as
\* its failure.
C21_PermanentErrorNotRetried ==
    [][\A c \in Callers :
        Transport(c, "http_4xx")
        => /\ calls'[c].pc = "returned"
           /\ calls'[c].tries = calls[c].tries + 1
           /\ calls'[c].response.success = FALSE
           /\ calls'[c].response.error_message = "http_4xx"
           /\ calls'[c].response.error_type = "IntegrationError"
           /\ calls'[c].rec_f = 1]_vars

C21_Witness ==
    \E c \in Callers :
        /\ calls[c].pc = "returned"
        /\ calls[c].tries = 1
        /\ calls[c].response.error_message = "http_4xx"
        /\ transport_calls = 1

(***************************************************************************)
(* Properties of the delay between two attempts                            *)
(***************************************************************************)
\* C22: the delay before each retry is a function of the retry's number and
\* the configuration alone, baseDelay * retry_backoff_factor^attempt (the
\* first retry being attempt 0 and baseDelay one second), and it does not
\* decrease from one retry to the next.
C22_DelayIsConfiguredExponential ==
    \A i \in 1..Len(waits) :
        /\ waits[i] = 1 * config.retry_backoff_factor^(i - 1)
        /\ i > 1 => waits[i - 1] <= waits[i]

(***************************************************************************)
(* Properties of the caches                                                *)
(***************************************************************************)
TtlEntry(cache, key) == cache[CacheIndex(cache, key)]

\* C23: set(k, v, ttl) at time t stores v with expiry t + ttl; get(k) before
\* the expiry time returns v, get(k) at or after it returns not-found and
\* removes the entry, and get of a key that is not stored returns not-found.
C23_TtlExpiry ==
    [][/\ \A key \in CacheKeyDomain, value \in CacheValues, ttl \in TtlArgs :
            TtlSet(key, value, ttl)
            => /\ key \in CacheKeys(ttl_cache')
               /\ TtlEntry(ttl_cache', key).value = value
               /\ TtlEntry(ttl_cache', key).expiry
                     = now + (IF ttl = None THEN default_ttl ELSE ttl)
       /\ \A key \in CacheKeyDomain :
            TtlGet(key)
            => /\ (key \in CacheKeys(ttl_cache) /\ now < TtlEntry(ttl_cache, key).expiry)
                  => /\ cache_call'.found = TRUE
                     /\ cache_call'.value = TtlEntry(ttl_cache, key).value
                     /\ ttl_cache' = ttl_cache
               /\ (key \in CacheKeys(ttl_cache) /\ now >= TtlEntry(ttl_cache, key).expiry)
                  => /\ cache_call'.found = FALSE
                     /\ key \notin CacheKeys(ttl_cache')
                     /\ cache_call'.removed = {key}
               /\ key \notin CacheKeys(ttl_cache)
                  => /\ cache_call'.found = FALSE
                     /\ ttl_cache' = ttl_cache]_vars

C23_Witness ==
    /\ cache_call.op = "ttl_get"
    /\ cache_call.found = FALSE
    /\ cache_call.removed = {cache_call.key}
    /\ ttl_cache # <<>>

\* C24: a set of a new key on a full LRUCache evicts exactly one entry, the
\* least recently used one (the head of the order), a get hit and a set both
\* moving their key to the most recently used end; the key just read is
\* not the next to be evicted while another key is stored.
C24_LruEviction ==
    [][/\ \A key \in CacheKeyDomain, value \in CacheValues :
            LruSet(key, value)
            => /\ response_cache'[Len(response_cache')] = [key |-> key, value |-> value]
               /\ (Len(response_cache) >= maxsize /\ key \notin CacheKeys(response_cache))
                  => /\ cache_call'.removed = {response_cache[1].key}
                     /\ Len(response_cache') = maxsize
                     /\ \A i \in 1..(Len(response_cache) - 1) :
                           response_cache'[i] = response_cache[i + 1]
               /\ (Len(response_cache) < maxsize \/ key \in CacheKeys(response_cache))
                  => cache_call'.removed = {}
       /\ \A key \in CacheKeyDomain :
            (LruGet(key) /\ key \in CacheKeys(response_cache))
            => /\ cache_call'.found = TRUE
               /\ response_cache'[Len(response_cache')].key = key
               /\ Len(response_cache') = Len(response_cache)
               /\ Len(response_cache) > 1 => response_cache'[1].key # key
               /\ \A i, j \in 1..Len(response_cache) :
                     (i < j /\ response_cache[i].key # key /\ response_cache[j].key # key)
                     => CacheIndex(response_cache', response_cache[i].key)
                           < CacheIndex(response_cache', response_cache[j].key)]_vars

C24_Witness ==
    /\ cache_call.op = "lru_set"
    /\ cache_call.found = FALSE
    /\ cache_call.removed # {}
    /\ Len(response_cache) = maxsize

\* C25: a set of a new key on a TTLCache full of unexpired entries removes
\* the least recently accessed entry, a get hit counting as an access.
C25_TtlEvictsLeastRecent ==
    [][\A key \in CacheKeyDomain, value \in CacheValues, ttl \in TtlArgs :
        (/\ TtlSet(key, value, ttl)
         /\ Len(ttl_cache) >= maxsize
         /\ key \notin CacheKeys(ttl_cache)
         /\ \A i \in 1..Len(ttl_cache) : now < ttl_cache[i].expiry)
        => cache_call'.removed = {ttl_recency[1]}]_vars

\* C26: neither cache ever holds more than maxsize entries, and a set of a
\* key that is already stored takes no other unexpired entry out.
C26_CapacityBound ==
    [][/\ Len(response_cache') <= maxsize
       /\ Len(ttl_cache') <= maxsize
       /\ (cache_call'.op = "lru_set" /\ cache_call'.found
           /\ response_cache' # response_cache)
          => CacheKeys(response_cache') = CacheKeys(response_cache)
       /\ (cache_call'.op = "ttl_set" /\ cache_call'.found
           /\ ttl_cache' # ttl_cache)
          => \A i \in 1..Len(ttl_cache) :
                now < ttl_cache[i].expiry
                => ttl_cache[i].key \in CacheKeys(ttl_cache')]_vars

C26_Witness ==
    /\ cache_call.op = "ttl_set"
    /\ cache_call.found = TRUE
    /\ cache_call.removed = {}
    /\ Len(ttl_cache) = maxsize
    /\ Len(response_cache) = maxsize

\* C29: while the breaker is HalfOpen every call passes the gate:
\* can_execute answers true and leaves the breaker as it is, so call_api
\* is never refused with the circuit-open message and any number of calls
\* can be under way as trials at once.
C29_HalfOpenAdmitsEveryCall ==
    [][\A c \in Callers, key \in Keys :
        (CallApi(c, key) /\ circuit_breaker.state = HALF_OPEN)
        => /\ can_execute(circuit_breaker, now) = [ok |-> TRUE, cb |-> circuit_breaker]
           /\ calls'[c].gate = HALF_OPEN
           /\ calls'[c].response.error_message # CircuitOpenMessage
           /\ \/ calls'[c].pc = "transport"
              \/ calls'[c].response.cached
              \/ LimiterRefuses]_vars

C29_Witness ==
    /\ circuit_breaker.state = HALF_OPEN
    /\ \A c \in Callers :
          /\ calls[c].pc \in {"transport", "backoff"}
          /\ calls[c].gate = HALF_OPEN

\* C30: a call cancelled while it sleeps between two attempts makes no
\* further attempt, returns a failure response, records exactly one breaker
\* failure and changes neither the rate limiter's count nor the cache.
C30_CancelledDuringBackoff ==
    [][\A c \in Callers :
        (Cancel(c) /\ calls[c].pc = "backoff")
        => /\ calls'[c].pc = "returned"
           /\ calls'[c].response.success = FALSE
           /\ calls'[c].response.error_type \in {"CancelledError", "TimeoutError"}
           /\ calls'[c].rec_f = 1
           /\ circuit_breaker'.failure_count = circuit_breaker.failure_count + 1
           /\ transport_calls' = transport_calls
           /\ rate_limiter' = rate_limiter
           /\ response_cache' = response_cache]_vars

(***************************************************************************)
(* Properties under threads                                                *)
(***************************************************************************)
\* C27: when the record_failure calls that threads made on a Closed
\* breaker with failure_count = 0 have all returned, failure_count is the
\* number of calls; below failure_threshold the breaker is Closed, from
\* failure_threshold on it is Open and the Closed -> Open transition was
\* taken exactly once.
C27_ConcurrentRecordFailure ==
    (\A t \in Threads : threads[t].pc = "idle")
    => /\ circuit_breaker.failure_count = race.finished
       /\ race.finished < failure_threshold
          => /\ circuit_breaker.state = CLOSED
             /\ race.opened = 0
       /\ race.finished >= failure_threshold
          => /\ circuit_breaker.state = OPEN
             /\ race.opened = 1

\* what the call of a thread does when nothing runs between its taking
\* the lock and its return
Serial(me) ==
    IF me.op = "get"
    THEN LET r == ttl_get(me.seen, me.key, me.time)
         IN  [cache |-> r.cache, found |-> r.found, result |-> r.value]
    ELSE IF me.op = "set"
    THEN [cache |-> ttl_store(ttl_make_room(me.seen, me.key, me.room_time),
                              me.key, me.value, me.expiry_time),
          found |-> FALSE, result |-> NoValue]
    ELSE [cache |-> CacheRemove(me.seen, me.key),
          found |-> me.key \in CacheKeys(me.seen), result |-> NoValue]

\* C28: the calls of concurrent threads on one cache take effect one after
\* the other, in the order in which they took the lock: when a call returns,
\* the cache and the call's result are those of the whole operation applied
\* to the cache the call found, so an expiry-delete never removes an entry
\* written meanwhile; every entry is whole and the capacity bound holds.
C28_CacheCallsAreSerial ==
    [][/\ \A t \in Threads :
            CtRelease(t)
            => /\ ttl_cache = Serial(cache_threads[t]).cache
               /\ cache_threads[t].found = Serial(cache_threads[t]).found
               /\ cache_threads[t].result = Serial(cache_threads[t]).result
       /\ Len(ttl_cache') <= maxsize
       /\ \A i, j \in 1..Len(ttl_cache') :
             ttl_cache'[i].key = ttl_cache'[j].key => i = j]_vars

C28_Witness ==
    \E t, u \in Threads :
        /\ cache_threads[t].op = "get"
        /\ cache_threads[t].pc = "release"
        /\ cache_threads[t].found = FALSE
        /\ cache_threads[t].key \in CacheKeys(cache_threads[t].seen)
        /\ cache_threads[t].key \notin CacheKeys(ttl_cache)
        /\ cache_threads[u].op = "set"
        /\ cache_threads[u].key = cache_threads[t].key
        /\ cache_threads[u].pc = "acquire"

(***************************************************************************)
(* Properties of call_api as a whole                                       *)
(***************************************************************************)
\* C31: call_api never raises for an expected failure mode: a call refused
\* by the breaker gate or the rate limiter, a call whose retries are used
\* up, a call that met a permanent error and a cancelled call all end by
\* returning a response with success = false and the error's kind.
C31_NeverRaises ==
    \A c \in Callers :
        /\ calls[c].pc # "cancelled"
        /\ (calls[c].pc = "returned" /\ ~calls[c].response.success)
              => /\ calls[c].response.error_type # ""
                 /\ calls[c].response.error_message # ""

\* C32: a call that fails never writes the cache: no step of a call that
\* is refused by a gate, meets a permanent error or uses up its retries
\* changes the cache, and no entry of the cache is a failure response, so
\* no later call is answered with a cached failure.
C32_FailedCallKeepsCache ==
    [][/\ \A c \in Callers :
            (/\ calls'[c] # calls[c]
             /\ calls'[c].pc \in {"transport", "backoff", "returned"}
             /\ ~calls'[c].response.success)
            => response_cache' = response_cache
       /\ \A i \in 1..Len(response_cache') : response_cache'[i].value.success]_vars

C32_Witness ==
    /\ calls["c1"].pc = "returned"
    /\ calls["c1"].tries = max_tries
    /\ ~calls["c1"].response.success
    /\ calls["c1"].response.error_message \in RetriedOutcomes
    /\ response_cache # << >>
    /\ calls["c1"].key \notin CacheKeys(response_cache)

\* C33: a response is not changed once it is returned: the response of a
\* call that missed the cache has cached = false, and as long as its caller
\* holds it no step of the client changes any of its fields; a call
\* answered from the cache returns cached = true, and that leaves the
\* responses other callers hold as they are.
C33_ReturnedResponseKept ==
    [][\A c \in Callers :
        /\ (calls'[c].pc = "returned" /\ calls'[c].tries > 0)
              => ~calls'[c].response.cached
        /\ (calls[c].pc = "returned" /\ calls'[c].pc = "returned")
              => calls'[c].response = calls[c].response
        /\ (calls[c].pc = "idle" /\ calls'[c].stored)
              => calls'[c].response.cached]_vars

C33_Witness ==
    /\ calls["c1"].pc = "returned"
    /\ calls["c1"].lookups = 1
    /\ calls["c1"].tries = 1
    /\ ~calls["c1"].response.cached
    /\ calls["c2"].pc = "returned"
    /\ calls["c2"].key = calls["c1"].key
    /\ calls["c2"].stored
    /\ calls["c2"].response.cached
    /\ calls["c2"].response.success

\* C34: every call that has come to its end has made exactly one
\* log_api_call, however many attempts it took: a call that succeeded, a
\* call that failed and a call answered from the cache.
C34_OneAuditEventPerCall ==
    \A c \in Callers :
        calls[c].pc = "returned" => calls[c].audit = 1

\* C35: a call that invoked the transport has, when it returns, reported
\* exactly one outcome to the breaker: one record_success or one
\* record_failure, never both and never neither, also when storing the
\* successful response in the cache fails.
C35_OneOutcomeReported ==
    \A c \in Callers :
        (calls[c].pc = "returned" /\ calls[c].tries > 0)
        => calls[c].rec_s + calls[c].rec_f = 1

(***************************************************************************)
(* Invariants of the breaker                                               *)
(***************************************************************************)
\* C36: whatever sequence of can_execute, record_success and record_failure
\* calls was made, a Closed breaker has failure_count < failure_threshold.
C36_ClosedBelowThreshold ==
    circuit_breaker.state = CLOSED
    => circuit_breaker.failure_count < failure_threshold

C36_Witness ==
    /\ last_call.op = "record_success"
    /\ last_call.before.state = HALF_OPEN
    /\ last_call.before.failure_count >= failure_threshold
    /\ circuit_breaker.state = CLOSED
    /\ circuit_breaker.failure_count = 0

\* C37: success_count differs from 0 only while the breaker is HalfOpen,
\* and there it is below success_threshold; in Closed and in Open it is 0,
\* and a record_success made in Closed or in Open leaves it 0.
C37_SuccessesCountedInHalfOpenOnly ==
    /\ circuit_breaker.success_count # 0
          => /\ circuit_breaker.state = HALF_OPEN
             /\ circuit_breaker.success_count < success_threshold
    /\ circuit_breaker.state \in {CLOSED, OPEN}
          => record_success(circuit_breaker, now).success_count = 0

C37_Witness ==
    /\ last_call.op = "record_success"
    /\ last_call.before.state = OPEN
    /\ circuit_breaker.state = OPEN
    /\ circuit_breaker.success_count = 0
    /\ hist.long_run

\* C38: a record_failure made while the breaker is Open leaves it Open
\* without a transition (last_state_change and success_count as they
\* were), raises failure_count by 1 and sets last_failure_time to the time
\* of the call, so that can_execute refuses until recovery_timeout has
\* passed since this failure.
C38_FailureWhileOpenPostpones ==
    [][(circuit_breaker.state = OPEN /\ RecordFailure)
        => /\ circuit_breaker'.state = OPEN
           /\ circuit_breaker'.last_state_change = circuit_breaker.last_state_change
           /\ circuit_breaker'.success_count = circuit_breaker.success_count
           /\ circuit_breaker'.failure_count = circuit_breaker.failure_count + 1
           /\ circuit_breaker'.last_failure_time = now
           /\ \A t \in now..(MaxTime + recovery_timeout) :
                 can_execute(circuit_breaker', t).ok <=> t - now >= recovery_timeout]_vars

C38_Witness ==
    /\ last_call.op = "record_failure"
    /\ last_call.before.state = OPEN
    /\ now - last_call.before.last_failure_time >= recovery_timeout
    /\ circuit_breaker.state = OPEN
    /\ circuit_breaker.last_failure_time = now
    /\ circuit_breaker.last_state_change < now
    /\ ~can_execute(circuit_breaker, now).ok

(***************************************************************************)
(* The gates and the retries                                               *)
(***************************************************************************)
\* C39: the gates are asked once per call and not once per attempt: a call
\* that passed them has made one can_execute check and taken one unit of
\* the rate limiter however many attempts it has made; no step it takes
\* after the gates touches the limiter, a sleep is always followed by the
\* next attempt and no attempt ends in a refusal of a gate, also when the
\* breaker has opened or the window has filled since the call began.
C39_GatesOncePerCall ==
    [][\A c \in Callers :
        (calls[c].pc \in {"transport", "backoff"} /\ calls'[c] # calls[c])
        => /\ calls'[c].checks = 1
           /\ calls'[c].allows = 1
           /\ rate_limiter' = rate_limiter
           /\ calls[c].pc = "backoff" => calls'[c].pc = "transport"
           /\ calls[c].pc = "transport" => calls'[c].tries = calls[c].tries + 1
           /\ calls'[c].response.error_message
                 \notin {CircuitOpenMessage, RateLimitMessage}]_vars

C39_Witness ==
    \E c \in Callers :
        /\ calls[c].pc = "transport"
        /\ calls[c].tries = max_tries - 1
        /\ calls[c].checks = 1
        /\ calls[c].allows = 1
        /\ calls[c].gate = CLOSED
        /\ circuit_breaker.state = OPEN
        /\ ~can_execute(circuit_breaker, now).ok
        /\ ~allow_request(rate_limiter, now).ok

====
